---- MODULE Spec2Model ----
(***************************************************************************)
(* Asset-transfer chaincode of fabric-samples: the access-controlled       *)
(* contract (AssetTransferContract / AssetContract, two textually equal    *)
(* copies) and the event-emitting contract in its TypeScript               *)
(* (AssetTransferEvents) and Go (SmartContract) implementations.           *)
(*                                                                         *)
(* The host owns the ledger.  One behaviour follows one chaincode          *)
(* namespace: `contract' says which chaincode the namespace belongs to.    *)
(* Every action is one complete transaction invocation: the handler runs   *)
(* against the current world state and either returns (its writes are      *)
(* committed) or throws / returns an error (the host discards its writes   *)
(* and its event).  `last' is the transaction record of the most recent    *)
(* invocation: what was asked, by whom, what came back and the state the   *)
(* invocation started from.  `entitled' is a history variable of the       *)
(* access-controlled contract: for each key, the identity that the         *)
(* successful CreateAsset / TransferAsset invocations made its owner.      *)
(* `mvcc' is the host's transaction pipeline for invocations that overlap: *)
(* the version of every key, the proposals endorsed and not yet validated, *)
(* and the log of the committed ones.  An invocation that is endorsed and  *)
(* committed in one step leaves the pipeline as it is.                     *)
(*                                                                         *)
(* The TypeScript and the Go package of the event-emitting chaincode are   *)
(* two implementations of the same chaincode; the world state and the      *)
(* peer's private collection belong to the chaincode namespace, not to the *)
(* package, so an invocation served by either implementation sees what     *)
(* the other has written.                                                  *)
(***************************************************************************)
EXTENDS Integers, Sequences, FiniteSets, TLC

VARIABLES contract, worldState, privateData, last, entitled, mvcc

vars == <<contract, worldState, privateData, last, entitled, mvcc>>

\* ---------------------------------------------------------------- bounds
\* number of distinct argument vectors an invocation draws from
MaxInputs == 2

\* number of those vectors drawn on a host whose event sink may fail
MaxSinkInputs == 1

\* asset keys; the range scan returns them in this order
AssetIds == {1, 2}

ColorNames == <<"red", "blue", "green", "yellow">>
OwnerList == <<"Tom", "Jin">>

\* (color, size, owner, appraisedValue) argument vectors handed to
\* CreateAsset and UpdateAsset; the access-controlled contract takes no owner
ArgVectors ==
    { [color |-> ColorNames[i], size |-> i,
       owner |-> OwnerList[((i - 1) % 2) + 1],
       appraisedValue |-> 100 + i] : i \in 1..MaxInputs }

NoArgs == [color |-> "", size |-> 0, owner |-> "", appraisedValue |-> 0]

\* ------------------------------------------------------- JSON documents
\* A stored value is the document its bytes encode.
NoValue == [t |-> "absent"]

JString(s) == <<"string", s>>
JEmptyObject == <<"object">>

AssetDoc(id, color, size, owner, appraisedValue) ==
    [t |-> "obj", ID |-> id, Color |-> color, Size |-> size,
     Owner |-> owner, AppraisedValue |-> appraisedValue]

\* -------------------------------------------------- client identities
ClientNames == {"x509::CN=alice", "x509::CN=bob"}

NullID == <<"null">>
btoa(s) == <<"b64", s>>
atob(b) == b[2]

Orgs == {"Org1MSP", "Org2MSP"}

\* the organisation of the peer this chaincode runs on (ctx.stub.getMspID())
PeerOrg == "Org1MSP"

\* what ClientIdentity(ctx.stub) exposes of the submitting client
AbacCallers ==
    [b64ID : {btoa(n) : n \in ClientNames} \cup {NullID}, creator : BOOLEAN,
     org : {PeerOrg}]

NoCaller == [b64ID |-> NullID, creator |-> FALSE, org |-> PeerOrg]

\* the event-emitting contract looks at the client's organisation only
EventCallers == [b64ID : {NullID}, creator : {FALSE}, org : Orgs]

\* owner names handed to TransferAsset of the event-emitting contract
OwnerNames == {OwnerList[i] : i \in 1..2}

\* the transient field asset_properties: bytes; json says whether they are
\* a JSON text
Properties == {[t |-> "props", json |-> TRUE]}

\* ------------------------------------------------ transaction records
Void == [k |-> "void"]
RetBool(b) == [k |-> "bool", b |-> b]
RetJSON(v) == [k |-> "json", v |-> v]
RetList(l) == [k |-> "list", l |-> l]

NoEvent == << >>

MutatingOps == {"CreateAsset", "UpdateAsset", "TransferAsset", "DeleteAsset"}

\* the record of one invocation; `event' is the event the transaction
\* carries when it commits, `evErr' whether the event sink reported an error
TxRecord(lang, op, id, args, newOwner, caller, tr, err, ret, ev, evErr) ==
    [lang |-> lang, op |-> op, id |-> id, args |-> args,
     newOwner |-> newOwner, caller |-> caller, transient |-> tr,
     err |-> err, ret |-> ret, event |-> ev, evErr |-> evErr,
     preState |-> worldState, prePrivate |-> privateData,
     preEntitled |-> entitled]

AbacTx(op, id, args, newOwner, caller, err, ret) ==
    TxRecord("ts", op, id, args, newOwner, caller, NoValue, err, ret, NoEvent,
             FALSE)

\* the pipeline before any proposal: every key at version 0
NoTraffic ==
    [version |-> [i \in AssetIds |-> 0], height |-> 0, endorsed |-> 0,
     pending |-> << >>, committed |-> << >>]

\* a failed invocation commits nothing
Commit(err, ws) == IF err = "none" THEN ws ELSE worldState

\* ------------------------------------------ access-controlled contract
\* An async function called without await hands back a Promise; a throw
\* inside it settles the Promise and is not raised in the caller.
GetSubmittingClientIdentity(caller) ==
    IF caller.b64ID = NullID
    THEN [js |-> "promise", promise |-> "rejected",
          reason |-> "IdentityResolutionError", value |-> ""]
    ELSE [js |-> "promise", promise |-> "fulfilled", reason |-> "",
          value |-> atob(caller.b64ID)]

\* JSON.stringify of a property value: a string is written as a JSON
\* string; a Promise has no enumerable own property and is written as {}.
StringifyOwner(owner) ==
    IF owner.js = "string" THEN JString(owner.value) ELSE JEmptyObject

\* the methods a value produced by JSON.parse has: data properties only
Methods(asset) == {}

\* clientID != asset.getOwner(): the call is evaluated first and throws when
\* the object has no such method; a Promise is loosely equal to no string.
OwnerCheck(clientID, asset) ==
    IF "getOwner" \notin Methods(asset) THEN "TypeError"
    ELSE IF clientID.js # "string" \/ JString(clientID.value) # asset.Owner
         THEN "Unauthorized"
    ELSE "none"

AssetExists_Inverted(ws, id) == ws[id] = NoValue

AssetExists_NeverTrue(ws, id) == FALSE

\* assetJSON && assetJSON.length > 0
AssetExists(ws, id) == ws[id] # NoValue

\* the identity string the Client Identity Provider resolves for the caller
Identity(caller) == IF caller.b64ID = NullID THEN "" ELSE atob(caller.b64ID)

\* error and return value of ReadAsset on world state ws
ReadAssetOut(ws, id) ==
    IF ws[id] = NoValue THEN [err |-> "NotFound", ret |-> Void]
    ELSE [err |-> "none", ret |-> RetJSON(ws[id])]

assertAttributeValue_AlwaysGranted(caller) == TRUE

\* ClientIdentity.assertAttributeValue("abac.creator", "true")
assertAttributeValue(caller) == caller.creator

\* the error of CreateAsset and the world state it leaves
CreateAssetOut(id, a, caller) ==
    LET err == IF ~assertAttributeValue(caller) THEN "Unauthorized"
               ELSE IF AssetExists(worldState, id) THEN "AlreadyExists"
               ELSE "none"
        clientID == GetSubmittingClientIdentity(caller)
        asset == AssetDoc(id, a.color, a.size, StringifyOwner(clientID),
                          a.appraisedValue)
    IN [err |-> err, ws |-> Commit(err, [worldState EXCEPT ![id] = asset])]

CreateAsset(id, a, caller) ==
    /\ contract = "abac"
    /\ LET out == CreateAssetOut(id, a, caller)
       IN /\ worldState' = out.ws
          /\ last' = AbacTx("CreateAsset", id, a, "", caller, out.err, Void)
          /\ entitled' = IF out.err = "none"
                         THEN [entitled EXCEPT ![id] = Identity(caller)]
                         ELSE entitled
    /\ UNCHANGED <<contract, mvcc, privateData>>

ReadAsset(id, caller) ==
    /\ contract = "abac"
    /\ LET out == ReadAssetOut(worldState, id)
       IN last' = AbacTx("ReadAsset", id, NoArgs, "", caller, out.err, out.ret)
    /\ UNCHANGED <<contract, mvcc, worldState, privateData, entitled>>

UpdateAsset(id, a, caller) ==
    /\ contract = "abac"
    /\ LET clientID == GetSubmittingClientIdentity(caller)
           asset == worldState[id]
           err == IF ~AssetExists(worldState, id) THEN "NotFound"
                  ELSE OwnerCheck(clientID, asset)
           updatedAsset == AssetDoc(id, a.color, a.size,
                                    StringifyOwner(clientID), a.appraisedValue)
       IN /\ worldState' = Commit(err, [worldState EXCEPT ![id] = updatedAsset])
          /\ last' = AbacTx("UpdateAsset", id, a, "", caller, err, Void)
    /\ UNCHANGED <<contract, mvcc, privateData, entitled>>

DeleteAsset(id, caller) ==
    /\ contract = "abac"
    /\ LET clientID == GetSubmittingClientIdentity(caller)
           asset == worldState[id]
           err == IF ~AssetExists(worldState, id) THEN "NotFound"
                  ELSE OwnerCheck(clientID, asset)
       IN /\ worldState' = Commit(err, [worldState EXCEPT ![id] = NoValue])
          /\ last' = AbacTx("DeleteAsset", id, NoArgs, "", caller, err, Void)
          /\ entitled' = IF err = "none" THEN [entitled EXCEPT ![id] = ""]
                         ELSE entitled
    /\ UNCHANGED <<contract, mvcc, privateData>>

AssetExistsTx(id, caller) ==
    /\ contract = "abac"
    /\ last' = AbacTx("AssetExists", id, NoArgs, "", caller, "none",
                      RetBool(AssetExists(worldState, id)))
    /\ UNCHANGED <<contract, mvcc, worldState, privateData, entitled>>

\* the error of TransferAsset on world state ws
TransferAssetErr(ws, id, caller) ==
    IF ReadAssetOut(ws, id).err # "none" THEN ReadAssetOut(ws, id).err
    ELSE OwnerCheck(GetSubmittingClientIdentity(caller), ws[id])

TransferAsset(id, newOwner, caller) ==
    /\ contract = "abac"
    /\ LET err == TransferAssetErr(worldState, id, caller)
       IN /\ worldState' =
                Commit(err, [worldState EXCEPT ![id].Owner = JString(newOwner)])
          /\ last' = AbacTx("TransferAsset", id, NoArgs, newOwner, caller, err,
                            Void)
          /\ entitled' = IF err = "none"
                         THEN [entitled EXCEPT ![id] = newOwner]
                         ELSE entitled
    /\ UNCHANGED <<contract, mvcc, privateData>>

\* a stored text that is no JSON text, and the string it is returned as
RawValue(text) == [t |-> "raw", text |-> text]
RawString(text) == [t |-> "string", text |-> text]

\* JSON.parse(strValue): throws on a text that is no JSON text
JSONparse(strValue) ==
    IF strValue.t = "raw" THEN [threw |-> TRUE, value |-> NoValue]
    ELSE [threw |-> FALSE, value |-> strValue]

ScanRecord_NoFallback(strValue) == JSONparse(strValue).value

\* try { record = JSON.parse(strValue) } catch (err) { record = strValue }
ScanRecord(strValue) ==
    IF JSONparse(strValue).threw THEN RawString(strValue.text)
    ELSE JSONparse(strValue).value

Scan_OnlyFirst(ws, k) ==
    IF ws[1] = NoValue THEN << >>
    ELSE << [Key |-> 1, Record |-> ScanRecord(ws[1])] >>

\* the open-ended range scan, in key order
RECURSIVE Scan(_, _)
Scan(ws, k) ==
    IF k \notin AssetIds THEN << >>
    ELSE (IF ws[k] = NoValue THEN << >>
          ELSE << [Key |-> k, Record |-> ScanRecord(ws[k])] >>)
         \o Scan(ws, k + 1)

GetAllAssets(caller) ==
    /\ contract = "abac"
    /\ last' = AbacTx("GetAllAssets", 0, NoArgs, "", caller, "none",
                      RetList(Scan(worldState, 1)))
    /\ UNCHANGED <<contract, mvcc, worldState, privateData, entitled>>

\* invoked as a transaction the function is awaited by the host
GetSubmittingClientIdentityTx(caller) ==
    /\ contract = "abac"
    /\ LET p == GetSubmittingClientIdentity(caller)
       IN last' = IF p.promise = "rejected"
                  THEN AbacTx("GetSubmittingClientIdentity", 0, NoArgs, "",
                              caller, p.reason, Void)
                  ELSE AbacTx("GetSubmittingClientIdentity", 0, NoArgs, "",
                              caller, "none", RetJSON(JString(p.value)))
    /\ UNCHANGED <<contract, mvcc, worldState, privateData, entitled>>

\* ------------------------------- event-emitting contract, TypeScript
\* what the invocation leaves behind: error, return value, world state,
\* private collection and the event of the transaction
Outcome(err, ret, ws, pd, ev) ==
    [err |-> err, ret |-> ret, ws |-> ws, pd |-> pd, ev |-> ev]

Failed(err) == Outcome(err, Void, worldState, privateData, NoEvent)

Event_NoPayload(name, payload) == << [name |-> name, payload |-> NoValue] >>

Event(name, payload) == << [name |-> name, payload |-> payload] >>

RetAsset(v, props) == [k |-> "json", v |-> v, asset_properties |-> props]

\* the invocation is committed as one unit or not at all
Apply(lang, op, id, a, newOwner, caller, transient, evErr, out) ==
    /\ worldState' = out.ws
    /\ privateData' = out.pd
    /\ last' = TxRecord(lang, op, id, a, newOwner, caller, transient, out.err,
                        out.ret, out.ev, evErr)
    /\ UNCHANGED <<contract, mvcc, entitled>>

savePrivateData_EveryKey(caller, transient, assetKey) ==
    IF caller.org = PeerOrg /\ transient # NoValue
    THEN [k \in AssetIds |-> transient]
    ELSE privateData

savePrivateData(caller, transient, assetKey) ==
    IF caller.org = PeerOrg /\ transient # NoValue
    THEN [privateData EXCEPT ![assetKey] = transient]
    ELSE privateData

removePrivateData_KeepsEntry(caller, assetKey) == privateData

removePrivateData(caller, assetKey) ==
    IF caller.org = PeerOrg /\ privateData[assetKey] # NoValue
    THEN [privateData EXCEPT ![assetKey] = NoValue]
    ELSE privateData

\* the error of addPrivateData and the properties it puts on the asset.
\* `asset' is what JSON.parse gave: a string has no ID, and the stub rejects
\* an undefined key; JSON.parse of the properties throws on a non-JSON text.
addPrivateData(caller, asset) ==
    IF caller.org # PeerOrg THEN [err |-> "none", props |-> NoValue]
    ELSE IF asset.t # "obj" THEN [err |-> "InvalidKey", props |-> NoValue]
    ELSE IF privateData[asset.ID] = NoValue
         THEN [err |-> "none", props |-> NoValue]
    ELSE IF ~privateData[asset.ID].json
         THEN [err |-> "SerializationError", props |-> NoValue]
    ELSE [err |-> "none", props |-> privateData[asset.ID]]

\* the error of readState; on success the asset is JSON.parse of the value
readState(id) == IF worldState[id] = NoValue THEN "NotFound" ELSE "none"

\* ctx.stub.setEvent throws when the event sink rejects the event
setEvent(evErr) == IF evErr THEN "EventError" ELSE "none"

Events_CreateAssetOut(id, a, caller, transient, evErr) ==
    LET asset == AssetDoc(id, a.color, a.size, JString(a.owner),
                          a.appraisedValue)
        pd == savePrivateData(caller, transient, id)
    IN IF setEvent(evErr) # "none" THEN Failed(setEvent(evErr))
       ELSE Outcome("none", Void,
                    [worldState EXCEPT ![id] = asset], pd,
                    Event("CreateAsset", asset))

Events_CreateAsset(id, a, caller, transient, evErr) ==
    /\ contract = "events"
    /\ Apply("ts", "CreateAsset", id, a, "", caller, transient, evErr,
             Events_CreateAssetOut(id, a, caller, transient, evErr))

\* an assignment to a property of a string throws in strict mode
Events_TransferAssetOut(id, newOwner, caller, transient, evErr) ==
    LET stored == worldState[id]
        asset == [stored EXCEPT !.Owner = JString(newOwner)]
        pd == savePrivateData(caller, transient, id)
    IN IF readState(id) # "none" THEN Failed(readState(id))
       ELSE IF stored.t # "obj" THEN Failed("TypeError")
       ELSE IF setEvent(evErr) # "none"
            THEN Failed(setEvent(evErr))
       ELSE Outcome("none", Void,
                    [worldState EXCEPT ![id] = asset], pd,
                    Event("TransferAsset", asset))

Events_TransferAsset(id, newOwner, caller, transient, evErr) ==
    /\ contract = "events"
    /\ Apply("ts", "TransferAsset", id, NoArgs, newOwner, caller, transient,
             evErr,
             Events_TransferAssetOut(id, newOwner, caller, transient, evErr))

Events_ReadAsset(id, caller) ==
    /\ contract = "events"
    /\ LET asset == worldState[id]
           priv == addPrivateData(caller, asset)
           out == IF readState(id) # "none" THEN Failed(readState(id))
                  ELSE IF priv.err # "none" THEN Failed(priv.err)
                  ELSE Outcome("none", RetAsset(asset, priv.props),
                               worldState, privateData, NoEvent)
       IN Apply("ts", "ReadAsset", id, NoArgs, "", caller, NoValue, FALSE, out)

Events_UpdateAssetOut(id, a, caller, transient, evErr) ==
    LET stored == worldState[id]
        asset == [stored EXCEPT !.Color = a.color, !.Size = a.size,
                                !.Owner = JString(a.owner),
                                !.AppraisedValue = a.appraisedValue]
        pd == savePrivateData(caller, transient, id)
    IN IF readState(id) # "none" THEN Failed(readState(id))
       ELSE IF stored.t # "obj" THEN Failed("TypeError")
       ELSE IF setEvent(evErr) # "none"
            THEN Failed(setEvent(evErr))
       ELSE Outcome("none", Void,
                    [worldState EXCEPT ![id] = asset], pd,
                    Event("UpdateAsset", asset))

Events_UpdateAsset(id, a, caller, transient, evErr) ==
    /\ contract = "events"
    /\ Apply("ts", "UpdateAsset", id, a, "", caller, transient, evErr,
             Events_UpdateAssetOut(id, a, caller, transient, evErr))

Events_DeleteAssetOut(assetId, caller, evErr) ==
    LET asset == worldState[assetId]
        pd == removePrivateData(caller, assetId)
    IN IF readState(assetId) # "none"
       THEN Failed(readState(assetId))
       ELSE IF setEvent(evErr) # "none"
            THEN Failed(setEvent(evErr))
       ELSE Outcome("none", Void,
                    [worldState EXCEPT ![assetId] = NoValue], pd,
                    Event("DeleteAsset", asset))

Events_DeleteAsset(assetId, caller, evErr) ==
    /\ contract = "events"
    /\ Apply("ts", "DeleteAsset", assetId, NoArgs, "", caller, NoValue, evErr,
             Events_DeleteAssetOut(assetId, caller, evErr))

\* --------------------------------------- event-emitting contract, Go
\* json.NewEncoder(assetBuffer).Encode(assetJSON): a byte slice is encoded
\* as a JSON string holding its base64 text
Go_Encode(assetJSON) == [t |-> "str", b64 |-> assetJSON]

\* the error of readState: GetState gives nil for a key without a value and
\* json.Unmarshal rejects nil as well as a JSON string for an Asset
Go_readState(id) ==
    IF worldState[id].t # "obj" THEN "SerializationError" ELSE "none"

\* asset != nil
Go_AssetExists(id) == worldState[id] # NoValue

Go_savePrivateData(caller, transient, assetKey) ==
    IF caller.org = PeerOrg /\ transient # NoValue
    THEN [privateData EXCEPT ![assetKey] = transient]
    ELSE privateData

Go_removePrivateData(caller, assetKey) ==
    IF caller.org = PeerOrg
    THEN [privateData EXCEPT ![assetKey] = NoValue]
    ELSE privateData

\* the error of addPrivateData and the bytes it returns: for a client of the
\* peer's organisation the write to the nil map tMap panics; for any other
\* client it returns nil bytes and a nil error
Go_addPrivateData(caller, asset) ==
    IF caller.org = PeerOrg THEN [err |-> "Panic", assetJSON |-> NoValue]
    ELSE [err |-> "none", assetJSON |-> NoValue]

Go_SetEvent_Ignored(evErr) == "none"

\* SetEvent returns the error of the event sink
Go_SetEvent(evErr) == IF evErr THEN "EventError" ELSE "none"

Go_CreateAssetOut(id, a, caller, transient, evErr) ==
    LET asset == AssetDoc(id, a.color, a.size, JString(a.owner),
                          a.appraisedValue)
        pd == Go_savePrivateData(caller, transient, id)
    IN IF ~Go_AssetExists(id) THEN Failed("AlreadyExists")
       ELSE IF Go_SetEvent(evErr) # "none"
            THEN Failed(Go_SetEvent(evErr))
       ELSE Outcome("none", Void,
                    [worldState EXCEPT ![id] = asset], pd,
                    Event("CreateAsset", asset))

Go_CreateAsset(id, a, caller, transient, evErr) ==
    /\ contract = "events"
    /\ Apply("go", "CreateAsset", id, a, "", caller, transient, evErr,
             Go_CreateAssetOut(id, a, caller, transient, evErr))

\* json.Unmarshal of the nil bytes of addPrivateData fails
Go_ReadAsset(id, caller) ==
    /\ contract = "events"
    /\ LET asset == worldState[id]
           priv == Go_addPrivateData(caller, asset)
           out == IF Go_readState(id) # "none" THEN Failed(Go_readState(id))
                  ELSE IF priv.err # "none" THEN Failed(priv.err)
                  ELSE IF priv.assetJSON = NoValue
                       THEN Failed("SerializationError")
                  ELSE Outcome("none", RetAsset(priv.assetJSON, NoValue),
                               worldState, privateData, NoEvent)
       IN Apply("go", "ReadAsset", id, NoArgs, "", caller, NoValue, FALSE, out)

Go_UpdateAssetOut(id, a, caller, transient, evErr) ==
    LET stored == worldState[id]
        asset == [stored EXCEPT !.Color = a.color, !.Size = a.size,
                                !.Owner = JString(a.owner),
                                !.AppraisedValue = a.appraisedValue]
        assetBuffer == Go_Encode(asset)
        pd == Go_savePrivateData(caller, transient, id)
    IN IF Go_readState(id) # "none" THEN Failed(Go_readState(id))
       ELSE IF Go_SetEvent(evErr) # "none"
            THEN Failed(Go_SetEvent(evErr))
       ELSE Outcome("none", Void,
                    [worldState EXCEPT ![id] = assetBuffer], pd,
                    Event("UpdateAsset", assetBuffer))

Go_UpdateAsset(id, a, caller, transient, evErr) ==
    /\ contract = "events"
    /\ Apply("go", "UpdateAsset", id, a, "", caller, transient, evErr,
             Go_UpdateAssetOut(id, a, caller, transient, evErr))

Go_DeleteAssetOut(id, caller, evErr) ==
    LET assetBuffer == Go_Encode(worldState[id])
        pd == Go_removePrivateData(caller, id)
    IN IF Go_readState(id) # "none" THEN Failed(Go_readState(id))
       ELSE IF Go_SetEvent(evErr) # "none"
            THEN Failed(Go_SetEvent(evErr))
       ELSE Outcome("none", Void,
                    [worldState EXCEPT ![id] = NoValue], pd,
                    Event("DeleteAsset", assetBuffer))

Go_DeleteAsset(id, caller, evErr) ==
    /\ contract = "events"
    /\ Apply("go", "DeleteAsset", id, NoArgs, "", caller, NoValue, evErr,
             Go_DeleteAssetOut(id, caller, evErr))

Go_AssetExistsTx(id, caller) ==
    /\ contract = "events"
    /\ Apply("go", "AssetExists", id, NoArgs, "", caller, NoValue, FALSE,
             Outcome("none", RetBool(Go_AssetExists(id)), worldState,
                     privateData, NoEvent))

Go_TransferAssetOut(id, newOwner, caller, evErr) ==
    LET stored == worldState[id]
        asset == [stored EXCEPT !.Owner = JString(newOwner)]
        assetBuffer == Go_Encode(asset)
    IN IF Go_readState(id) # "none" THEN Failed(Go_readState(id))
       ELSE IF Go_SetEvent(evErr) # "none"
            THEN Failed(Go_SetEvent(evErr))
       ELSE Outcome("none", Void,
                    [worldState EXCEPT ![id] = assetBuffer],
                    privateData,
                    Event("TransferAsset", assetBuffer))

Go_TransferAsset(id, newOwner, caller, evErr) ==
    /\ contract = "events"
    /\ Apply("go", "TransferAsset", id, NoArgs, newOwner, caller, NoValue, evErr,
             Go_TransferAssetOut(id, newOwner, caller, evErr))

\* ------------------------- host: endorsement and read/write-set validation
\* number of proposals the clients submit
MaxTx == 3

\* whether the handler calls getState on the key before it writes it: the
\* access-controlled handlers go through AssetExists / ReadAsset, the
\* TypeScript handlers through readState except CreateAsset, which makes no
\* getState call, the Go handlers through AssetExists / readState
ReadsKey(lang, op) ==
    ~(contract = "events" /\ lang = "ts" /\ op = "CreateAsset")

\* whether the handler writes the private entry of the key
WritesPrivate(lang, op, id, caller, transient) ==
    /\ contract = "events"
    /\ caller.org = PeerOrg
    /\ IF op = "DeleteAsset" THEN lang = "go" \/ privateData[id] # NoValue
       ELSE IF lang = "go" /\ op = "TransferAsset" THEN FALSE
       ELSE transient # NoValue

\* the proposal of an endorsed invocation: its record, the version of the
\* key it read, the height of the snapshot it ran on and what it writes
Proposal(tx, out) ==
    [tx |-> tx, reads |-> ReadsKey(tx.lang, tx.op),
     version |-> mvcc.version[tx.id], snapshot |-> mvcc.height,
     write |-> out.ws[tx.id], private |-> out.pd[tx.id],
     writesPrivate |->
         WritesPrivate(tx.lang, tx.op, tx.id, tx.caller, tx.transient)]

\* the handler runs on the current world state; an invocation that fails
\* is returned to the client and never submitted
Endorse(tx, out) ==
    /\ mvcc.endorsed < MaxTx
    /\ out.err = "none"
    /\ mvcc' = [mvcc EXCEPT !.pending = Append(@, Proposal(tx, out)),
                            !.endorsed = @ + 1]
    /\ UNCHANGED <<contract, worldState, privateData, last, entitled>>

\* UpdateAsset, DeleteAsset and TransferAsset of the access-controlled
\* contract never return without an error, so only CreateAsset is endorsed
Endorse_CreateAsset(id, a, caller) ==
    /\ contract = "abac"
    /\ LET out == CreateAssetOut(id, a, caller)
       IN Endorse(AbacTx("CreateAsset", id, a, "", caller, out.err, Void),
                  [err |-> out.err, ws |-> out.ws, pd |-> privateData])

Endorse_Events(op, id, a, newOwner, caller, transient) ==
    /\ contract = "events"
    /\ LET out ==
             CASE op = "CreateAsset" ->
                      Events_CreateAssetOut(id, a, caller, transient, FALSE)
               [] op = "UpdateAsset" ->
                      Events_UpdateAssetOut(id, a, caller, transient, FALSE)
               [] op = "TransferAsset" ->
                      Events_TransferAssetOut(id, newOwner, caller, transient,
                                              FALSE)
               [] op = "DeleteAsset" ->
                      Events_DeleteAssetOut(id, caller, FALSE)
       IN Endorse(TxRecord("ts", op, id, a, newOwner, caller, transient,
                           out.err, out.ret, out.ev, FALSE), out)

Endorse_Go(op, id, a, newOwner, caller, transient) ==
    /\ contract = "events"
    /\ LET out ==
             CASE op = "CreateAsset" ->
                      Go_CreateAssetOut(id, a, caller, transient, FALSE)
               [] op = "UpdateAsset" ->
                      Go_UpdateAssetOut(id, a, caller, transient, FALSE)
               [] op = "TransferAsset" ->
                      Go_TransferAssetOut(id, newOwner, caller, FALSE)
               [] op = "DeleteAsset" -> Go_DeleteAssetOut(id, caller, FALSE)
       IN Endorse(TxRecord("go", op, id, a, newOwner, caller, transient,
                           out.err, out.ret, out.ev, FALSE), out)

RemoveAt(s, i) == SubSeq(s, 1, i - 1) \o SubSeq(s, i + 1, Len(s))

\* the proposal read the version of its key that is still the current one
Valid(p) == p.reads => p.version = mvcc.version[p.tx.id]

\* validation of the i-th pending proposal, in the order the orderer picks
CommitTx(i) ==
    /\ i \in 1..Len(mvcc.pending)
    /\ LET p == mvcc.pending[i]
           id == p.tx.id
       IN /\ Valid(p)
          /\ worldState' = [worldState EXCEPT ![id] = p.write]
          /\ privateData' = IF p.writesPrivate
                            THEN [privateData EXCEPT ![id] = p.private]
                            ELSE privateData
          /\ entitled' = IF contract = "abac"
                         THEN [entitled EXCEPT ![id] = Identity(p.tx.caller)]
                         ELSE entitled
          /\ last' = p.tx
          /\ mvcc' = [mvcc EXCEPT !.version[id] = @ + 1,
                                  !.height = @ + 1,
                                  !.pending = RemoveAt(@, i),
                                  !.committed = Append(@, p)]
    /\ UNCHANGED contract

AbortTx(i) ==
    /\ i \in 1..Len(mvcc.pending)
    /\ LET p == mvcc.pending[i]
       IN /\ ~Valid(p)
          /\ last' = [p.tx EXCEPT !.err = "MVCC_READ_CONFLICT",
                                  !.event = NoEvent]
          /\ mvcc' = [mvcc EXCEPT !.pending = RemoveAt(@, i)]
    /\ UNCHANGED <<contract, worldState, privateData, entitled>>

\* ------------------------------------------------------- specification
Init ==
    /\ contract \in {"abac", "events"}
    /\ worldState = [i \in AssetIds |-> NoValue]
    /\ privateData = [i \in AssetIds |-> NoValue]
    /\ entitled = [i \in AssetIds |-> ""]
    /\ mvcc = NoTraffic
    /\ last = [lang |-> "ts", op |-> "init", id |-> 0, args |-> NoArgs,
               newOwner |-> "", caller |-> NoCaller, transient |-> NoValue,
               err |-> "none", ret |-> Void, event |-> NoEvent,
               evErr |-> FALSE,
               preState |-> [i \in AssetIds |-> NoValue],
               prePrivate |-> [i \in AssetIds |-> NoValue],
               preEntitled |-> [i \in AssetIds |-> ""]]

AbacNext ==
    \E caller \in AbacCallers :
        \/ GetAllAssets(caller)
        \/ GetSubmittingClientIdentityTx(caller)
        \/ \E id \in AssetIds :
            \/ ReadAsset(id, caller)
            \/ DeleteAsset(id, caller)
            \/ AssetExistsTx(id, caller)
            \/ \E a \in ArgVectors :
                \/ CreateAsset(id, a, caller)
                \/ UpdateAsset(id, a, caller)
            \/ \E newOwner \in ClientNames : TransferAsset(id, newOwner, caller)

\* sinkErrors: the answers the event sink may give.  The stub rejects an
\* event only for an empty name, and every name passed is a literal, so the
\* sink of the deployed chaincode never reports an error.
\* argVectors: the argument vectors CreateAsset and UpdateAsset draw from.
EventsNext(sinkErrors, argVectors) ==
    \E id \in AssetIds, caller \in EventCallers :
        \/ Events_ReadAsset(id, caller)
        \/ \E evErr \in sinkErrors :
            \/ Events_DeleteAsset(id, caller, evErr)
            \/ \E transient \in Properties \cup {NoValue} :
                \/ \E newOwner \in OwnerNames :
                    Events_TransferAsset(id, newOwner, caller, transient, evErr)
                \/ \E a \in argVectors :
                    \/ Events_CreateAsset(id, a, caller, transient, evErr)
                    \/ Events_UpdateAsset(id, a, caller, transient, evErr)

GoNext(sinkErrors, argVectors) ==
    \E id \in AssetIds, caller \in EventCallers :
        \/ Go_ReadAsset(id, caller)
        \/ Go_AssetExistsTx(id, caller)
        \/ \E evErr \in sinkErrors :
            \/ Go_DeleteAsset(id, caller, evErr)
            \/ \E newOwner \in OwnerNames :
                Go_TransferAsset(id, newOwner, caller, evErr)
            \/ \E a \in argVectors, transient \in Properties \cup {NoValue} :
                \/ Go_CreateAsset(id, a, caller, transient, evErr)
                \/ Go_UpdateAsset(id, a, caller, transient, evErr)

Next ==
    AbacNext \/ EventsNext({FALSE}, ArgVectors) \/ GoNext({FALSE}, ArgVectors)

Spec == Init /\ [][Next]_vars

\* the event-emitting chaincode on a host whose event sink may reject an event
InitEvents == Init /\ contract = "events"

FaultySinkArgs == {a \in ArgVectors : a.size <= MaxSinkInputs}

FaultySinkNext ==
    EventsNext(BOOLEAN, FaultySinkArgs) \/ GoNext(BOOLEAN, FaultySinkArgs)

SpecFaultySink == InitEvents /\ [][FaultySinkNext]_vars

\* overlapping invocations: clients have proposals endorsed on the current
\* world state and the host validates them one at a time
EndorseNext ==
    \/ \E id \in AssetIds, a \in ArgVectors, caller \in AbacCallers :
           Endorse_CreateAsset(id, a, caller)
    \/ \E id \in AssetIds, caller \in EventCallers,
          transient \in Properties \cup {NoValue} :
           \/ \E a \in ArgVectors, op \in {"CreateAsset", "UpdateAsset"} :
                 \/ Endorse_Events(op, id, a, "", caller, transient)
                 \/ Endorse_Go(op, id, a, "", caller, transient)
           \/ \E newOwner \in OwnerNames :
                 \/ Endorse_Events("TransferAsset", id, NoArgs, newOwner,
                                   caller, transient)
                 \/ Endorse_Go("TransferAsset", id, NoArgs, newOwner, caller,
                               NoValue)
           \/ Endorse_Events("DeleteAsset", id, NoArgs, "", caller, NoValue)
           \/ Endorse_Go("DeleteAsset", id, NoArgs, "", caller, NoValue)

ValidateNext == \E i \in 1..MaxTx : CommitTx(i) \/ AbortTx(i)

MvccNext == EndorseNext \/ ValidateNext

SpecMVCC == Init /\ [][MvccNext]_vars

\* GetAllAssets as a function of the namespace it scans: every ledger whose
\* keys hold nothing, a text that is no JSON text, or an asset as CreateAsset
\* of the access-controlled contract stores it
RawTexts == {"not json", "{broken"}

ScanValues(k) ==
    {NoValue} \cup {RawValue(text) : text \in RawTexts}
    \cup {AssetDoc(k, a.color, a.size, JEmptyObject, a.appraisedValue) :
              a \in ArgVectors}

ScanLedgers == {ws \in [AssetIds -> UNION {ScanValues(k) : k \in AssetIds}] :
                   \A k \in AssetIds : ws[k] \in ScanValues(k)}

InitScan ==
    /\ contract = "abac"
    /\ worldState \in ScanLedgers
    /\ privateData = [i \in AssetIds |-> NoValue]
    /\ entitled = [i \in AssetIds |-> ""]
    /\ mvcc = NoTraffic
    /\ last = AbacTx("init", 0, NoArgs, "", NoCaller, "none", Void)

ScanNext == \E caller \in AbacCallers : GetAllAssets(caller)

SpecScan == InitScan /\ [][ScanNext]_vars

\* ------------------------------------------------------------- claims
Abac(ops) == contract = "abac" /\ last.op \in ops
Events(ops) == contract = "events" /\ last.op \in ops

\* the record the invocation found under its key
Pre == last.preState[last.id]

\* the caller's identity resolves
Resolved == last.caller.b64ID # NullID

\* the caller is the owner of the record: its identity is the stored Owner,
\* or it is the identity that creation or the last transfer made the owner
CallerOwns ==
    /\ Resolved
    /\ \/ JString(Identity(last.caller)) = Pre.Owner
       \/ Identity(last.caller) = last.preEntitled[last.id]

\* C1: in the access-controlled contract UpdateAsset, DeleteAsset and
\* TransferAsset on an existing asset by a caller whose resolved identity
\* differs from the stored Owner fail with Unauthorized and leave the world
\* state as it was.
C1_NonOwnerUnauthorized ==
    (/\ Abac({"UpdateAsset", "DeleteAsset", "TransferAsset"})
     /\ Pre # NoValue
     /\ Resolved
     /\ JString(Identity(last.caller)) # Pre.Owner)
    => (last.err = "Unauthorized" /\ worldState = last.preState)

\* C2: in the access-controlled contract CreateAsset by a caller without
\* abac.creator = "true" fails with Unauthorized, whether or not the id
\* exists, and writes nothing; a caller with the attribute is not rejected
\* by this check.
C2_CreateNeedsCreatorAttribute ==
    Abac({"CreateAsset"}) =>
        /\ ~last.caller.creator =>
              (last.err = "Unauthorized" /\ worldState = last.preState)
        /\ last.caller.creator => last.err # "Unauthorized"

C2_Witness ==
    /\ Abac({"CreateAsset"})
    /\ ~last.caller.creator
    /\ Pre # NoValue
    /\ last.err = "Unauthorized"

\* C3: in the access-controlled contract, for an id absent from world state
\* and a caller authorized to create, AssetExists(id) is false before
\* CreateAsset(id, ...) and true after it.
C3_ExistsAfterCreate ==
    (Abac({"CreateAsset"}) /\ last.caller.creator /\ Pre = NoValue) =>
        /\ ~AssetExists(last.preState, last.id)
        /\ AssetExists(worldState, last.id)

C3_Witness ==
    /\ Abac({"CreateAsset"})
    /\ last.caller.creator
    /\ Pre = NoValue
    /\ last.err = "none"
    /\ worldState[last.id] # NoValue

\* C4 as stated: in the access-controlled contract CreateAsset on an id that
\* already has a record always fails with AlreadyExists and leaves the record
\* as it was.
C4_CreateExistingAlreadyExists ==
    (Abac({"CreateAsset"}) /\ Pre # NoValue) =>
        (last.err = "AlreadyExists" /\ worldState[last.id] = Pre)

\* C4 as amended: CreateAsset on an id that already has a record always fails
\* and leaves the record as it was; the failure is AlreadyExists when the
\* caller carries abac.creator = "true" and Unauthorized when it does not.
C4_CreateExistingFails ==
    (Abac({"CreateAsset"}) /\ Pre # NoValue) =>
        /\ worldState[last.id] = Pre
        /\ last.err = IF last.caller.creator THEN "AlreadyExists"
                      ELSE "Unauthorized"

C4_Witness ==
    /\ Abac({"CreateAsset"})
    /\ Pre # NoValue
    /\ last.caller.creator
    /\ last.err = "AlreadyExists"

\* C5: in the event-emitting contracts CreateAsset succeeds exactly when the
\* id is absent: on an absent id it writes the new record, on an id with a
\* record it fails with AlreadyExists and leaves the record as it was.
C5_CreateIffAbsent ==
    Events({"CreateAsset"}) =>
        IF Pre = NoValue
        THEN /\ last.err = "none"
             /\ worldState[last.id] =
                    AssetDoc(last.id, last.args.color, last.args.size,
                             JString(last.args.owner), last.args.appraisedValue)
        ELSE /\ last.err = "AlreadyExists"
             /\ worldState[last.id] = Pre

\* C6: in the access-controlled contract, after CreateAsset(id, c, s, v) by
\* an authorized caller on an absent id, ReadAsset(id) yields ID = id,
\* Color = c, Size = s, AppraisedValue = v and Owner = the resolved identity
\* of the creating caller.
C6_CreateReadRoundTrip ==
    (Abac({"CreateAsset"}) /\ last.err = "none" /\ Resolved) =>
        LET read == ReadAssetOut(worldState, last.id)
        IN /\ read.err = "none"
           /\ read.ret.v.ID = last.id
           /\ read.ret.v.Color = last.args.color
           /\ read.ret.v.Size = last.args.size
           /\ read.ret.v.AppraisedValue = last.args.appraisedValue
           /\ read.ret.v.Owner = JString(Identity(last.caller))

\* C7: in the access-controlled contract UpdateAsset(id, c, s, v) on an
\* existing asset by its owner succeeds, and afterwards the record has
\* Color = c, Size = s, AppraisedValue = v and the Owner it had before.
C7_OwnerUpdateSucceeds ==
    (Abac({"UpdateAsset"}) /\ Pre # NoValue /\ CallerOwns) =>
        /\ last.err = "none"
        /\ worldState[last.id].Color = last.args.color
        /\ worldState[last.id].Size = last.args.size
        /\ worldState[last.id].AppraisedValue = last.args.appraisedValue
        /\ worldState[last.id].Owner = Pre.Owner

\* C8: in the access-controlled contract, after the owner calls
\* TransferAsset(id, newOwner) with newOwner different from the owner,
\* ReadAsset(id) yields Owner = newOwner and a further TransferAsset on id by
\* the original owner fails with Unauthorized.
C8_TransferChangesOwner ==
    (/\ Abac({"TransferAsset"})
     /\ Pre # NoValue
     /\ CallerOwns
     /\ last.newOwner # Identity(last.caller)) =>
        /\ last.err = "none"
        /\ ReadAssetOut(worldState, last.id).err = "none"
        /\ ReadAssetOut(worldState, last.id).ret.v.Owner =
               JString(last.newOwner)
        /\ TransferAssetErr(worldState, last.id, last.caller) = "Unauthorized"

\* C9: in every contract variant ReadAsset, UpdateAsset, DeleteAsset and
\* TransferAsset on an id without a record fail with NotFound, and world
\* state, private data and events are unchanged by the failed call.
C9_AbsentIdNotFound ==
    (/\ last.op \in {"ReadAsset", "UpdateAsset", "DeleteAsset",
                     "TransferAsset"}
     /\ Pre = NoValue) =>
        /\ last.err = "NotFound"
        /\ worldState = last.preState
        /\ privateData = last.prePrivate
        /\ last.event = NoEvent

\* C10: in the event-emitting contracts ReadAsset(id) of a stored record
\* includes the private asset_properties only when the caller's organisation
\* is the organisation whose private collection holds the properties for id;
\* for a caller of any other organisation the result is the public fields.
C10_PrivateOnlyForOwningOrg ==
    (Events({"ReadAsset"}) /\ Pre # NoValue) =>
        /\ (last.err = "none" /\ last.ret.asset_properties # NoValue) =>
              (last.caller.org = PeerOrg /\ last.prePrivate[last.id] # NoValue)
        /\ last.caller.org # PeerOrg =>
              (last.err = "none" /\ last.ret = RetAsset(Pre, NoValue))

\* C11 as stated: in the event-emitting contracts, after DeleteAsset(id)
\* succeeds for any caller, the world state has no record under id and the
\* private collection has no entry under id.
C11_DeleteRemovesRecordAndPrivate ==
    (Events({"DeleteAsset"}) /\ last.err = "none") =>
        (worldState[last.id] = NoValue /\ privateData[last.id] = NoValue)

\* C11 as amended: after DeleteAsset(id) succeeds the world state has no
\* record under id; the private collection has no entry under id when the
\* caller's organisation is the peer's organisation, and keeps the entry it
\* had when the caller is of another organisation.
C11_DeleteRemovesPrivateForPeerOrg ==
    (Events({"DeleteAsset"}) /\ last.err = "none") =>
        /\ worldState[last.id] = NoValue
        /\ last.caller.org = PeerOrg => privateData[last.id] = NoValue
        /\ last.caller.org # PeerOrg =>
              privateData[last.id] = last.prePrivate[last.id]

C11_Witness ==
    /\ Events({"DeleteAsset"})
    /\ last.lang = "ts"
    /\ last.err = "none"
    /\ last.caller.org = PeerOrg
    /\ last.prePrivate[last.id] # NoValue
    /\ privateData[last.id] = NoValue

\* the entries of a scan result that carry key k
EntriesOf(l, k) == {i \in 1..Len(l) : l[i].Key = k}

\* C12: GetAllAssets returns exactly one (key, record) entry for each key
\* present in world state, carrying the record stored under the key, and no
\* entry for any other key; an attempt to delete a key that was never
\* created does not change its result.
C12_GetAllAssetsIsWorldState ==
    /\ Abac({"GetAllAssets"}) =>
          \A k \in AssetIds :
             /\ Cardinality(EntriesOf(last.ret.l, k)) =
                    (IF worldState[k] # NoValue THEN 1 ELSE 0)
             /\ \A i \in EntriesOf(last.ret.l, k) :
                    last.ret.l[i].Record = worldState[k]
    /\ (Abac({"DeleteAsset"}) /\ Pre = NoValue) =>
          Scan(worldState, 1) = Scan(last.preState, 1)

C12_Witness ==
    /\ Abac({"GetAllAssets"})
    /\ last.err = "none"
    /\ \A k \in AssetIds : worldState[k] # NoValue
    /\ Len(last.ret.l) = Cardinality(AssetIds)

\* C13: in the TypeScript event-emitting contract every successful
\* CreateAsset, UpdateAsset, TransferAsset and DeleteAsset records exactly
\* one event, named after the operation, whose payload is the record the
\* operation wrote; for DeleteAsset it is the record stored before the call.
C13_OneEventWithWrittenRecord ==
    (Events(MutatingOps) /\ last.lang = "ts" /\ last.err = "none") =>
        /\ Len(last.event) = 1
        /\ last.event[1].name = last.op
        /\ last.event[1].payload =
               (IF last.op = "DeleteAsset" THEN Pre ELSE worldState[last.id])

C13_Witness ==
    /\ Events({"DeleteAsset"}) /\ last.lang = "ts" /\ last.err = "none"
    /\ Pre.t = "obj"
    /\ worldState[last.id] = NoValue
    /\ last.event = Event("DeleteAsset", Pre)

\* the invocation got as far as its event-emission call and the sink
\* reported an error there
SinkAsked ==
    /\ Events(MutatingOps)
    /\ last.evErr
    /\ IF last.op = "CreateAsset" THEN last.lang = "ts" \/ Pre # NoValue
       ELSE IF last.lang = "ts" /\ last.op = "DeleteAsset" THEN Pre # NoValue
       ELSE Pre.t = "obj"

\* C14 as stated: when the event sink reports an error during CreateAsset,
\* UpdateAsset, DeleteAsset or TransferAsset, the operation still performs
\* its world-state write and returns success.
C14_SinkErrorIgnored ==
    SinkAsked =>
        /\ last.err = "none"
        /\ (last.op = "DeleteAsset") = (worldState[last.id] = NoValue)

\* C14 as amended: when the event sink reports an error during CreateAsset,
\* UpdateAsset, DeleteAsset or TransferAsset, the operation fails with that
\* error, and neither world state nor the private collection changes and
\* no event is recorded.
C14_SinkErrorFailsOperation ==
    SinkAsked =>
        /\ last.err = "EventError"
        /\ worldState = last.preState
        /\ privateData = last.prePrivate
        /\ last.event = NoEvent

C14_Witness ==
    /\ SinkAsked
    /\ last.lang = "go" /\ last.op = "UpdateAsset"
    /\ last.err = "EventError"
    /\ worldState[last.id] = Pre

\* the identity strings the Client Identity Provider resolves
ResolvedOwners == {JString(n) : n \in ClientNames}

\* C15: in every reachable state of the access-controlled contract the Owner
\* of every stored asset is an identity string resolved by the Client
\* Identity Provider.
C15_OwnerIsResolvedIdentity ==
    contract = "abac" =>
        \A k \in AssetIds :
            worldState[k] # NoValue => worldState[k].Owner \in ResolvedOwners

\* C16: in the access-controlled contract, when the caller's identity cannot
\* be resolved, CreateAsset, UpdateAsset, DeleteAsset and TransferAsset fail
\* with IdentityResolutionError and write nothing to world state.  The case
\* is an invocation that passes the checks made before the resolution.
C16_UnresolvedIdentityFails ==
    (/\ Abac(MutatingOps)
     /\ ~Resolved
     /\ IF last.op = "CreateAsset"
        THEN last.caller.creator /\ Pre = NoValue
        ELSE Pre # NoValue) =>
        /\ last.err = "IdentityResolutionError"
        /\ worldState = last.preState

\* C18: in every reachable state the record stored under key k has ID = k.
C18_StoredIdIsKey ==
    \A k \in AssetIds :
        worldState[k] # NoValue =>
            (worldState[k].t = "obj" /\ worldState[k].ID = k)

\* C19: GetAllAssets never aborts because a stored value is not valid JSON:
\* for such a key it returns the raw string payload as the record, and it
\* still returns an entry for every other key in the namespace.
C19_ScanFallsBackToRawString ==
    Abac({"GetAllAssets"}) =>
        /\ last.err = "none"
        /\ \A k \in AssetIds :
              /\ worldState[k] # NoValue =>
                     Cardinality(EntriesOf(last.ret.l, k)) = 1
              /\ worldState[k].t = "raw" =>
                     \A i \in EntriesOf(last.ret.l, k) :
                         last.ret.l[i].Record = RawString(worldState[k].text)
              /\ worldState[k].t = "obj" =>
                     \A i \in EntriesOf(last.ret.l, k) :
                         last.ret.l[i].Record = worldState[k]

C19_Witness ==
    /\ Abac({"GetAllAssets"})
    /\ worldState[1].t = "raw" /\ worldState[2].t = "obj"
    /\ Len(last.ret.l) = 2
    /\ last.ret.l[1].Record = RawString(worldState[1].text)
    /\ last.ret.l[2].Record = worldState[2]

\* C20: a successful TransferAsset(id, newOwner) changes nothing except the
\* Owner field of the record under id: ID, Color, Size and AppraisedValue of
\* the record, the private-data entry for id and every other key are the
\* same after the call as before it.
C20_TransferChangesOnlyOwner ==
    (last.op = "TransferAsset" /\ last.err = "none") =>
        /\ worldState[last.id].t = "obj"
        /\ worldState[last.id] =
               [Pre EXCEPT !.Owner = worldState[last.id].Owner]
        /\ \A k \in AssetIds \ {last.id} : worldState[k] = last.preState[k]
        /\ privateData = last.prePrivate

\* two proposals that mutate the same key in the way the claim pairs them
Rivals(p, q) ==
    /\ p.tx.id = q.tx.id
    /\ p.snapshot = q.snapshot
    /\ (p.tx.op = "CreateAsset") = (q.tx.op = "CreateAsset")

\* C17: when two invocations that mutate the same key (two CreateAsset, or
\* any two of UpdateAsset / TransferAsset / DeleteAsset) run against the
\* same world-state snapshot, each of them reads the key before writing it,
\* so the host's validation commits at most one of them.
C17_AtMostOneRivalCommits ==
    /\ \A i \in 1..Len(mvcc.pending) : mvcc.pending[i].reads
    /\ \A i, j \in 1..Len(mvcc.committed) :
          i < j => ~Rivals(mvcc.committed[i], mvcc.committed[j])

ReadOnlyOps == {"ReadAsset", "AssetExists", "GetAllAssets"}

\* C21: every operation invoked with asset id k, whether it succeeds or
\* fails, leaves the world-state records and the private-data entries of
\* all keys other than k unchanged, and the read-only operations ReadAsset,
\* AssetExists and GetAllAssets leave the whole world state and
\* private-data store unchanged.
C21_OtherKeysUntouched ==
    /\ last.id \in AssetIds =>
          \A k \in AssetIds \ {last.id} :
              /\ worldState[k] = last.preState[k]
              /\ privateData[k] = last.prePrivate[k]
    /\ last.op \in ReadOnlyOps =>
          (worldState = last.preState /\ privateData = last.prePrivate)

C21_Witness ==
    /\ Events({"UpdateAsset"}) /\ last.lang = "ts" /\ last.err = "none"
    /\ worldState[last.id] # Pre
    /\ privateData[last.id] # last.prePrivate[last.id]
    /\ \E k \in AssetIds \ {last.id} :
          /\ worldState[k] # NoValue /\ worldState[k] = last.preState[k]
          /\ privateData[k] = NoValue /\ last.prePrivate[k] = NoValue

====
